---- MODULE Spec2Model ----
(***************************************************************************)
(* Model of the verbleiber kiosk client: the event channel (events.rs)     *)
(* and the Session Coordinator (client.rs) that consumes it.               *)
(*                                                                         *)
(* Every Coordinator step (sign_on, or the handling of one event) begins   *)
(* with one action and ends with another, so that producers send while     *)
(* the Coordinator is inside a call.  The collaborators (remote API, audio *)
(* player, random source) answer nondeterministically.  What a finished    *)
(* step did is kept in api_log and sound_log, both reset at the start of   *)
(* the next step, together with the event it handled (last_event) and      *)
(* CurrentUser before it (prev_user).                                      *)
(***************************************************************************)
EXTENDS Naturals, Sequences, FiniteSets

VARIABLES
    user_mode,      \* Client.user_mode, fixed at construction
    admin_tags,     \* the configured admin tag set
    channel,        \* the flume channel: events sent and not yet received
    pc,             \* where the Coordinator is: start, receiving, done, panicked
    current_user,   \* the local current_user of handle_events
    prev_user,      \* current_user before the most recent step
    last_event,     \* the event handled by the most recent step
    api_log,        \* API calls of the most recent step, in order
    sound_log,      \* AudioPlayer::play calls of the most recent step, in order
    sign_on_count,  \* sign_on calls made so far
    sign_off_count, \* sign_off calls made so far
    in_flight,      \* what the Coordinator is inside of: the sign_on call,
                    \* the handling of this event, or nothing (NoEvent)
    key_query,      \* a key name and a key code looked up in the translator
    key_found,      \* what the lookups of key_query answered, once made
    buttons_to_key_code_names,  \* Config.buttons_to_key_code_names
    key_codes_to_buttons,       \* KeyCodeToButtonMapping.key_codes_to_buttons
    button_listener,  \* the button listener: none, running, failed, ended
    tag_listener,     \* the tag listener: none, running, ended
    chars_read,       \* TagReader.chars_read
    raw_event,        \* the raw input event a listener handled last
    released_digits   \* the digit keys released since the last Enter release

vars == <<user_mode, admin_tags, channel, pc, current_user, prev_user,
          last_event, api_log, sound_log, sign_on_count, sign_off_count,
          in_flight, key_query, key_found, buttons_to_key_code_names,
          key_codes_to_buttons, button_listener, tag_listener, chars_read,
          raw_event, released_digits>>

\* The variables of the Coordinator and its channel.
client_vars == <<user_mode, admin_tags, channel, pc, current_user, prev_user,
                 last_event, api_log, sound_log, sign_on_count, sign_off_count,
                 in_flight>>

\* The variables of the key-code lookups.
key_vars == <<key_query, key_found>>

\* The variables of the two Device Listeners.
listener_vars == <<buttons_to_key_code_names, key_codes_to_buttons,
                   button_listener, tag_listener, chars_read, raw_event,
                   released_digits>>

----------------------------------------------------------------------------
\* Bounds of the model.

\* Events the channel holds at most (the channel itself is unbounded).
MaxQueue == 2

\* Characters the tag buffer holds at most (the String is unbounded).
MaxTagLen == 2

----------------------------------------------------------------------------
\* Data model (model.rs, buttons.rs, events.rs).

Button == {"Button1", "Button2", "Button3", "Button4",
           "Button5", "Button6", "Button7", "Button8"}

\* Tag values: digit strings as the tag reader emits them.
TagValues == {"42", "7"}

UserIds == {"u1", "u2"}

\* Greeting sound names the API may attach to a tag.
GreetingNames == {"hello"}

NoValue == "-"

SingleUser(user_id) == [id |-> user_id, kind |-> "SingleUser"]
MultiUser == [id |-> NoValue, kind |-> "MultiUser"]

UserModes == {MultiUser, SingleUser("u1")}

CurrentUserNone == [id |-> NoValue, kind |-> "None"]
CurrentUserAdmin == [id |-> NoValue, kind |-> "Admin"]
CurrentUserUser(user_id) == [id |-> user_id, kind |-> "User"]

TagRead(tag) == [tag |-> tag, button |-> NoValue, type |-> "TagRead"]
ButtonPressed(button) == [tag |-> NoValue, button |-> button, type |-> "ButtonPressed"]
ShutdownRequested == [tag |-> NoValue, button |-> NoValue, type |-> "ShutdownRequested"]
NoEvent == [tag |-> NoValue, button |-> NoValue, type |-> "NoEvent"]

\* Not an event: in_flight while the Coordinator is inside sign_on.
SignOnCall == [tag |-> NoValue, button |-> NoValue, type |-> "SignOnCall"]

----------------------------------------------------------------------------
\* Configuration (config.rs).  One party configuration that has every case
\* of the button dispatch: a whereabouts name with one sound, with several,
\* with an empty sound list, with no entry at all, and unmapped buttons.

\* PartyConfig.buttons_to_whereabouts: Button5..Button8 have no entry.
buttons_to_whereabouts ==
    [b \in {"Button1", "Button2", "Button3", "Button4"} |->
        CASE b = "Button1" -> "away"
          [] b = "Button2" -> "bar"
          [] b = "Button3" -> "lounge"
          [] b = "Button4" -> "lab"]

\* PartyConfig.whereabouts_sounds: "bar" has no entry, "lab" an empty list.
whereabouts_sounds ==
    [w \in {"away", "lounge", "lab"} |->
        CASE w = "away" -> <<"bye_1", "bye_2">>
          [] w = "lounge" -> <<"going_to_lounge">>
          [] w = "lab" -> <<>>]

\* Config::get_admin_tags: the configured tags, or the empty set when the
\* [admin] section or its tags are absent.
AdminTagSets == {{}, {"42"}}

----------------------------------------------------------------------------
\* Sounds (audio.rs).

Sound(kind) == [kind |-> kind, name |-> NoValue]
SoundNamed(kind, name) == [kind |-> kind, name |-> name]

\* Sound::get_name
get_name(sound) ==
    CASE sound.kind = "AdminModeEntered" -> "admin_mode_entered"
      [] sound.kind = "AdminModeLeft" -> "admin_mode_left"
      [] sound.kind = "SignOnSuccessful" -> "sign_on_successful"
      [] sound.kind = "SignOnFailed" -> "sign_on_failed"
      [] sound.kind = "SignOffSuccessful" -> "sign_off_successful"
      [] sound.kind = "SignOffFailed" -> "sign_off_failed"
      [] sound.kind = "UserTagCustomGreeting" -> sound.name
      [] sound.kind = "UserTagUnknown" -> "user_tag_unknown"
      [] sound.kind = "WhereaboutsStatusUpdated" -> "whereabouts_status_updated"
      [] sound.kind = "WhereaboutsStatusUpdatedCustom" -> sound.name
      [] sound.kind = "CommunicationFailed" -> "communication_failed"

\* Client::play_sound: one AudioPlayer::play call, which succeeds or fails;
\* a failure is logged and not propagated.  The set of possible sound logs.
play_sound(sound) == {<<[name |-> get_name(sound), ok |-> ok]>> : ok \in BOOLEAN}

----------------------------------------------------------------------------
\* API calls as log entries.

ApiCall(op, user, arg, res) == [op |-> op, user |-> user, arg |-> arg, res |-> res]

----------------------------------------------------------------------------
\* EventHandlingResult (client.rs) and the outcome of one handler run: its
\* result, the API calls and audio plays it made, and whether it panicked
\* instead of returning.

KeepCurrentUser == [type |-> "KeepCurrentUser", user |-> CurrentUserNone]
SetCurrentUser(new_current_user) == [type |-> "SetCurrentUser", user |-> new_current_user]
ResetCurrentUser == [type |-> "ResetCurrentUser", user |-> CurrentUserNone]
Abort == [type |-> "Abort", user |-> CurrentUserNone]

Outcome(result, api, sounds) ==
    [result |-> result, api |-> api, sounds |-> sounds, panicked |-> FALSE]
Panic(api, sounds) ==
    [result |-> Abort, api |-> api, sounds |-> sounds, panicked |-> TRUE]

SeqElems(s) == {s[i] : i \in 1..Len(s)}

\* Random::choose_random_element: some element of the list.  An empty list
\* has no element to return.
choose_random_element(elements) == SeqElems(elements)

----------------------------------------------------------------------------
\* The remote API (ApiClient).  Each call answers nondeterministically.

\* ApiClient::sign_on, ApiClient::sign_off: Ok(()) or Err.
ApiResults == {"Err", "Ok"}

\* ApiClient::get_tag_details: Ok(None), Err, or Ok(Some(details)) with the
\* user id and the optional greeting sound name of the details.
TagDetailsResponses ==
    {[user |-> NoValue, res |-> "None", sound_name |-> NoValue],
     [user |-> NoValue, res |-> "Err", sound_name |-> NoValue]}
    \cup {[user |-> u, res |-> "Some", sound_name |-> g] :
            u \in UserIds, g \in GreetingNames \cup {NoValue}}

\* Client::update_status: the one ApiClient::update_status call, as logged.
update_status(user_id, whereabouts_name) ==
    {ApiCall("update_status", user_id, whereabouts_name, res) : res \in ApiResults}

----------------------------------------------------------------------------
\* The Coordinator's handlers (client.rs).  Each is the set of outcomes the
\* handler can have, over the answers of its collaborators.

\* Client::sign_on: one API call, then the sound of its outcome; always
\* returns Ok(()).
sign_on ==
    UNION {{Outcome(KeepCurrentUser, <<ApiCall("sign_on", NoValue, NoValue, res)>>, p) :
                p \in play_sound(Sound(IF res = "Ok" THEN "SignOnSuccessful"
                                                     ELSE "SignOnFailed"))} :
           res \in ApiResults}

\* Client::sign_off
sign_off ==
    UNION {{Outcome(KeepCurrentUser, <<ApiCall("sign_off", NoValue, NoValue, res)>>, p) :
                p \in play_sound(Sound(IF res = "Ok" THEN "SignOffSuccessful"
                                                     ELSE "SignOffFailed"))} :
           res \in ApiResults}

\* Client::shutdown: sign_off, whose Ok(()) is passed on.
shutdown == sign_off

\* The sound chosen after a successful status update (client.rs 222-230):
\* Option::map over the configured list, so a configured list, empty or
\* not, goes to choose_random_element; only a missing entry gives the
\* generic sound.  The set of sounds the expression can evaluate to; it is
\* empty when choose_random_element has nothing to return.
status_updated_sound(whereabouts_name) ==
    IF whereabouts_name \in DOMAIN whereabouts_sounds
    THEN {SoundNamed("WhereaboutsStatusUpdatedCustom", name) :
            name \in choose_random_element(whereabouts_sounds[whereabouts_name])}
    ELSE {Sound("WhereaboutsStatusUpdated")}

\* Mutant of status_update_feedback: the update_status error is not
\* matched but unwrapped, which ends the Coordinator.
status_update_feedback_propagating(whereabouts_name, call) ==
    IF call.res = "Ok"
    THEN IF status_updated_sound(whereabouts_name) = {}
         THEN {Panic(<<call>>, <<>>)}
         ELSE {Outcome(KeepCurrentUser, <<call>>, p) :
                 p \in UNION {play_sound(sound) :
                                sound \in status_updated_sound(whereabouts_name)}}
    ELSE {Panic(<<call>>, <<>>)}

\* The match on update_status's response (client.rs 218-237).
status_update_feedback(whereabouts_name, call) ==
    IF call.res = "Ok"
    THEN IF status_updated_sound(whereabouts_name) = {}
         THEN {Panic(<<call>>, <<>>)}
         ELSE {Outcome(KeepCurrentUser, <<call>>, p) :
                 p \in UNION {play_sound(sound) :
                                sound \in status_updated_sound(whereabouts_name)}}
    ELSE {Outcome(KeepCurrentUser, <<call>>, p) :
            p \in play_sound(Sound("CommunicationFailed"))}

\* Mutant of handle_button_press_with_identified_user: a button without a
\* whereabouts name is answered with the failure sound.
handle_button_press_with_identified_user_answering(user_id, button) ==
    IF button \in DOMAIN buttons_to_whereabouts
    THEN LET whereabouts_name == buttons_to_whereabouts[button]
         IN  UNION {status_update_feedback(whereabouts_name, call) :
                      call \in update_status(user_id, whereabouts_name)}
    ELSE {Outcome(KeepCurrentUser, <<>>, p) :
            p \in play_sound(Sound("CommunicationFailed"))}

\* Client::handle_button_press_with_identified_user
handle_button_press_with_identified_user(user_id, button) ==
    IF button \in DOMAIN buttons_to_whereabouts
    THEN LET whereabouts_name == buttons_to_whereabouts[button]
         IN  UNION {status_update_feedback(whereabouts_name, call) :
                      call \in update_status(user_id, whereabouts_name)}
    ELSE {Outcome(KeepCurrentUser, <<>>, <<>>)}

\* A handler's outcomes with its own EventHandlingResult put in place of the
\* callee's (..)?; value: a panic of the callee stays a panic.
Returning(result, outcomes) ==
    {IF o.panicked THEN o ELSE Outcome(result, o.api, o.sounds) : o \in outcomes}

\* Mutant of tag_details_outcome: an unknown tag keeps the current user.
tag_details_outcome_keeping(tag, response) ==
    LET call == ApiCall("get_tag_details", response.user, tag, response.res)
    IN  CASE response.res = "Some" ->
               IF response.sound_name # NoValue
               THEN {Outcome(SetCurrentUser(CurrentUserUser(response.user)), <<call>>, p) :
                       p \in play_sound(SoundNamed("UserTagCustomGreeting",
                                                   response.sound_name))}
               ELSE {Outcome(SetCurrentUser(CurrentUserUser(response.user)), <<call>>, <<>>)}
          [] response.res = "None" ->
               {Outcome(KeepCurrentUser, <<call>>, p) :
                  p \in play_sound(Sound("UserTagUnknown"))}
          [] response.res = "Err" ->
               {Outcome(ResetCurrentUser, <<call>>, p) :
                  p \in play_sound(Sound("CommunicationFailed"))}

\* Mutant of tag_details_outcome: a failed lookup keeps the current user.
tag_details_outcome_keeping_on_error(tag, response) ==
    LET call == ApiCall("get_tag_details", response.user, tag, response.res)
    IN  CASE response.res = "Some" ->
               IF response.sound_name # NoValue
               THEN {Outcome(SetCurrentUser(CurrentUserUser(response.user)), <<call>>, p) :
                       p \in play_sound(SoundNamed("UserTagCustomGreeting",
                                                   response.sound_name))}
               ELSE {Outcome(SetCurrentUser(CurrentUserUser(response.user)), <<call>>, <<>>)}
          [] response.res = "None" ->
               {Outcome(ResetCurrentUser, <<call>>, p) :
                  p \in play_sound(Sound("UserTagUnknown"))}
          [] response.res = "Err" ->
               {Outcome(KeepCurrentUser, <<call>>, p) :
                  p \in play_sound(Sound("CommunicationFailed"))}

\* The three arms of the match on get_tag_details's answer (client.rs 172-206).
tag_details_outcome(tag, response) ==
    LET call == ApiCall("get_tag_details", response.user, tag, response.res)
    IN  CASE response.res = "Some" ->
               IF response.sound_name # NoValue
               THEN {Outcome(SetCurrentUser(CurrentUserUser(response.user)), <<call>>, p) :
                       p \in play_sound(SoundNamed("UserTagCustomGreeting",
                                                   response.sound_name))}
               ELSE {Outcome(SetCurrentUser(CurrentUserUser(response.user)), <<call>>, <<>>)}
          [] response.res = "None" ->
               {Outcome(ResetCurrentUser, <<call>>, p) :
                  p \in play_sound(Sound("UserTagUnknown"))}
          [] response.res = "Err" ->
               {Outcome(ResetCurrentUser, <<call>>, p) :
                  p \in play_sound(Sound("CommunicationFailed"))}

\* Client::handle_tag_read
handle_tag_read(tag) ==
    UNION {tag_details_outcome(tag, response) : response \in TagDetailsResponses}

\* Mutant of handle_single_user_event: a tag read is looked up as in
\* multi-user mode.
handle_single_user_event_looking_up(event, single_user_id) ==
    CASE event.type = "TagRead" -> handle_tag_read(event.tag)
      [] event.type = "ButtonPressed" ->
           Returning(ResetCurrentUser,
                     handle_button_press_with_identified_user(single_user_id, event.button))
      [] event.type = "ShutdownRequested" -> Returning(Abort, shutdown)

\* Client::handle_single_user_event
handle_single_user_event(event, single_user_id) ==
    CASE event.type = "TagRead" -> {Outcome(ResetCurrentUser, <<>>, <<>>)}
      [] event.type = "ButtonPressed" ->
           Returning(ResetCurrentUser,
                     handle_button_press_with_identified_user(single_user_id, event.button))
      [] event.type = "ShutdownRequested" -> Returning(Abort, shutdown)

----------------------------------------------------------------------------
\* Admin mode.  main.rs hands the admin tag set to Client::new and model.rs
\* declares CurrentUser::Admin, but the Client revision under src/ has no
\* admin handling; these three definitions follow the specification's
\* transition table (section 4.5).

\* Mutant of is_admin_tag: no tag is taken for an admin tag.
is_admin_tag_never(tag) == FALSE

\* Whether a tag is a member of the configured admin tag set.
is_admin_tag(tag) == tag \in admin_tags

\* TagRead of an admin tag: enter admin state, play the admin-entered sound.
enter_admin_mode ==
    {Outcome(SetCurrentUser(CurrentUserAdmin), <<>>, p) :
       p \in play_sound(Sound("AdminModeEntered"))}

\* Mutant of leave_admin_mode: the sound is played but admin state is kept.
leave_admin_mode_staying ==
    {Outcome(KeepCurrentUser, <<>>, p) : p \in play_sound(Sound("AdminModeLeft"))}

\* ButtonPressed while CurrentUser = Admin: leave admin mode, play the
\* admin-left sound, reset.
leave_admin_mode ==
    {Outcome(ResetCurrentUser, <<>>, p) : p \in play_sound(Sound("AdminModeLeft"))}

----------------------------------------------------------------------------

\* The TagRead arm of handle_multi_user_event: an admin tag enters admin
\* mode, any other tag is looked up.
multi_user_tag_read(tag) ==
    IF is_admin_tag(tag) THEN enter_admin_mode ELSE handle_tag_read(tag)

\* Mutant of multi_user_button_press: a press with no user identified is
\* dispatched like one with a user.
multi_user_button_press_dispatching(button, user) ==
    CASE user.kind \in {"None", "User"} ->
           Returning(ResetCurrentUser,
                     handle_button_press_with_identified_user(user.id, button))
      [] user.kind = "Admin" -> leave_admin_mode

\* The ButtonPressed arm of handle_multi_user_event: the match on
\* current_user (client.rs 125-131), with the Admin arm of the
\* specification.
multi_user_button_press(button, user) ==
    CASE user.kind = "User" ->
           Returning(ResetCurrentUser,
                     handle_button_press_with_identified_user(user.id, button))
      [] user.kind = "None" -> {Outcome(ResetCurrentUser, <<>>, <<>>)}
      [] user.kind = "Admin" -> leave_admin_mode

\* Client::handle_multi_user_event
handle_multi_user_event(event, user) ==
    CASE event.type = "TagRead" -> multi_user_tag_read(event.tag)
      [] event.type = "ButtonPressed" -> multi_user_button_press(event.button, user)
      [] event.type = "ShutdownRequested" -> Returning(Abort, shutdown)

\* handle_events: default_current_user
default_current_user ==
    IF user_mode.kind = "SingleUser" THEN CurrentUserUser(user_mode.id)
                                     ELSE CurrentUserNone

\* handle_events: the dispatch on user_mode (client.rs 69-74).
handle_event(event) ==
    IF user_mode.kind = "SingleUser"
    THEN handle_single_user_event(event, user_mode.id)
    ELSE handle_multi_user_event(event, current_user)

\* Mutant of next_current_user: ResetCurrentUser keeps the current user.
next_current_user_keeping(result) ==
    CASE result.type = "KeepCurrentUser" -> current_user
      [] result.type = "SetCurrentUser" -> result.user
      [] result.type = "ResetCurrentUser" -> current_user
      [] result.type = "Abort" -> current_user

\* handle_events: the match on the handler's result (client.rs 75-82); the
\* Abort arm breaks and leaves current_user as it is.
next_current_user(result) ==
    CASE result.type = "KeepCurrentUser" -> current_user
      [] result.type = "SetCurrentUser" -> result.user
      [] result.type = "ResetCurrentUser" -> default_current_user
      [] result.type = "Abort" -> current_user

\* Mutant of next_pc: the Abort arm does not break.
next_pc_never_breaking(result) == "receiving"

\* Mutant of next_pc: the Abort arm breaks only when the channel is empty,
\* so that the loop first handles what is still queued.
next_pc_draining(result) ==
    IF result.type = "Abort" /\ channel = <<>> THEN "done" ELSE "receiving"

\* handle_events: whether the loop goes on after this result.
next_pc(result) == IF result.type = "Abort" THEN "done" ELSE "receiving"

CountOp(api, op) == Cardinality({i \in 1..Len(api) : api[i].op = op})

----------------------------------------------------------------------------
\* Key-Code Translator (keycodenames.rs).  Key codes are the numbers of
\* linux/input-event-codes.h, which the KeyCode constants stand for.

\* Option<T>: None, or Some of one value.
None == {}
Some(value) == {value}

\* KeyCodeNameMapping::new: the insert calls, family by family.
MouseKeys ==
    << <<"left", 272>>, <<"right", 273>>, <<"middle", 274>>, <<"side", 275>>,
       <<"extra", 276>>, <<"forward", 277>>, <<"back", 278>>, <<"task", 279>> >>

JoystickKeys ==
    << <<"trigger", 288>>, <<"thumb", 289>>, <<"thumb2", 290>>, <<"top", 291>>,
       <<"top2", 292>>, <<"pinkie", 293>>, <<"base", 294>>, <<"base2", 295>>,
       <<"base3", 296>>, <<"base4", 297>>, <<"base5", 298>>, <<"base6", 299>>,
       <<"dead", 303>> >>

\* Mutant of GamepadKeys: "b" is inserted with the code of "a" (BTN_SOUTH).
GamepadKeys_b_on_south ==
    << <<"a", 304>>, <<"b", 304>>, <<"c", 306>>, <<"x", 307>>, <<"y", 308>>,
       <<"z", 309>>, <<"tl", 310>>, <<"tr", 311>>, <<"tl2", 312>>, <<"tr2", 313>>,
       <<"select", 314>>, <<"start", 315>>, <<"mode", 316>>, <<"thumbl", 317>>,
       <<"thumbr", 318>> >>

GamepadKeys ==
    << <<"a", 304>>, <<"b", 305>>, <<"c", 306>>, <<"x", 307>>, <<"y", 308>>,
       <<"z", 309>>, <<"tl", 310>>, <<"tr", 311>>, <<"tl2", 312>>, <<"tr2", 313>>,
       <<"select", 314>>, <<"start", 315>>, <<"mode", 316>>, <<"thumbl", 317>>,
       <<"thumbr", 318>> >>

DpadKeys ==
    << <<"dpad_up", 544>>, <<"dpad_down", 545>>, <<"dpad_left", 546>>,
       <<"dpad_right", 547>> >>

TriggerHappyKeys ==
    << <<"trigger_happy1", 704>>, <<"trigger_happy2", 705>>,
       <<"trigger_happy3", 706>>, <<"trigger_happy4", 707>>,
       <<"trigger_happy5", 708>>, <<"trigger_happy6", 709>>,
       <<"trigger_happy7", 710>>, <<"trigger_happy8", 711>> >>

\* The built-in table: every insert call of new, in order.
KeyCodeTable ==
    MouseKeys \o JoystickKeys \o GamepadKeys \o DpadKeys \o TriggerHappyKeys

\* BiMap::insert: the new pair replaces every pair that has its left or
\* its right value.
BiMapInsert(bimap, name, code) ==
    {pair \in bimap : pair[1] # name /\ pair[2] # code} \cup {<<name, code>>}

RECURSIVE InsertAll(_, _, _)
InsertAll(bimap, table, i) ==
    IF i > Len(table) THEN bimap
    ELSE InsertAll(BiMapInsert(bimap, table[i][1], table[i][2]), table, i + 1)

\* KeyCodeNameMapping::new: the field names_to_codes after every insert.
names_to_codes == InsertAll({}, KeyCodeTable, 1)

\* KeyCodeNameMapping::find_code_for_name: BiMap::get_by_left.
find_code_for_name(name) ==
    IF \E pair \in names_to_codes : pair[1] = name
    THEN Some((CHOOSE pair \in names_to_codes : pair[1] = name)[2])
    ELSE None

\* KeyCodeNameMapping::find_name_for_code: BiMap::get_by_right.
find_name_for_code(code) ==
    IF \E pair \in names_to_codes : pair[2] = code
    THEN Some((CHOOSE pair \in names_to_codes : pair[2] = code)[1])
    ELSE None

\* The names and the codes of the table.
KeyNames == {KeyCodeTable[i][1] : i \in 1..Len(KeyCodeTable)}
KeyCodes == {KeyCodeTable[i][2] : i \in 1..Len(KeyCodeTable)}

\* A key name the table does not have, and codes it does not have:
\* KEY_ENTER and BTN_0.
UnknownKeyNames == {"bogus"}
UnknownKeyCodes == {28, 256}

\* No lookup is asked for.
KeyIdle ==
    /\ key_query = <<NoValue, 0>>
    /\ key_found = <<FALSE, None, FALSE, None>>

----------------------------------------------------------------------------
\* Device Listeners (buttons.rs, tagreader.rs).  A raw input event has an
\* event type, a key code and a value: 0 key released, 1 key pressed,
\* 2 key repeated.

RawEvent(device, kind, key_code, value) ==
    [kind |-> kind, value |-> value, device |-> device, key_code |-> key_code]

NoRawEvent == RawEvent(NoValue, NoValue, 0, 0)

KeyValues == {0, 1, 2}

\* The keys of the tag reader: KEY_1..KEY_9, KEY_0, KEY_ENTER.
KEY_1 == 2
KEY_0 == 11
KEY_ENTER == 28

\* What a reader device with these keys delivers: releases, presses and
\* repeats of each key, and a synchronisation event.
ReaderEvents(key_codes) ==
    {RawEvent("reader", "KEY", key_code, value) :
        key_code \in key_codes, value \in KeyValues}
    \cup {RawEvent("reader", "SYN", 0, 0)}

\* A reader with two digit keys (KEY_2, KEY_4), KEY_ENTER and a letter key
\* (KEY_A), and one with a single digit key.
ReaderKeys == {3, 5, KEY_ENTER, 30}
FewReaderKeys == {5, KEY_ENTER, 30}

\* TagReader::is_key_released
is_key_released(event) == event.kind = "KEY" /\ event.value = 0

\* TagReader::get_char
get_char(key_code) ==
    CASE key_code = 2 -> Some("1")
      [] key_code = 3 -> Some("2")
      [] key_code = 4 -> Some("3")
      [] key_code = 5 -> Some("4")
      [] key_code = 6 -> Some("5")
      [] key_code = 7 -> Some("6")
      [] key_code = 8 -> Some("7")
      [] key_code = 9 -> Some("8")
      [] key_code = 10 -> Some("9")
      [] key_code = 11 -> Some("0")
      [] OTHER -> None

\* The value of a Some.
Unwrap(option) == CHOOSE value \in option : TRUE

\* Mutant of TagReader_handle_event: Enter does not clear chars_read.
TagReader_handle_event_keeping(chars, event) ==
    IF ~is_key_released(event) THEN <<chars, None>>
    ELSE IF event.kind = "KEY" /\ event.value = 0
         THEN IF event.key_code = KEY_ENTER
              THEN <<chars, Some(chars)>>
              ELSE IF get_char(event.key_code) # None
                   THEN <<chars \o Unwrap(get_char(event.key_code)), None>>
                   ELSE <<chars, None>>
         ELSE <<chars, None>>

\* Mutant of TagReader_handle_event: Enter with nothing read emits no tag.
TagReader_handle_event_skipping_empty(chars, event) ==
    IF ~is_key_released(event) THEN <<chars, None>>
    ELSE IF event.kind = "KEY" /\ event.value = 0
         THEN IF event.key_code = KEY_ENTER
              THEN <<"", IF chars = "" THEN None ELSE Some(chars)>>
              ELSE IF get_char(event.key_code) # None
                   THEN <<chars \o Unwrap(get_char(event.key_code)), None>>
                   ELSE <<chars, None>>
         ELSE <<chars, None>>

\* TagReader::handle_event: chars_read afterwards, and the Tag returned.
TagReader_handle_event(chars, event) ==
    IF ~is_key_released(event) THEN <<chars, None>>
    ELSE IF event.kind = "KEY" /\ event.value = 0
         THEN IF event.key_code = KEY_ENTER
              THEN <<"", Some(chars)>>
              ELSE IF get_char(event.key_code) # None
                   THEN <<chars \o Unwrap(get_char(event.key_code)), None>>
                   ELSE <<chars, None>>
         ELSE <<chars, None>>

\* The key codes of the configured key names.
ConfiguredKeyCodes(config) ==
    UNION {find_code_for_name(config[button]) : button \in DOMAIN config}

\* KeyCodeToButtonMapping::new, as the set of maps it may return: none (an
\* error) when a configured key name is unknown; otherwise a map from the
\* code of every configured name to a button configured with it (the last
\* one the HashMap iteration inserts, which may be any of them).
KeyCodeToButtonMapping_new(config) ==
    IF \E button \in DOMAIN config : find_code_for_name(config[button]) = None
    THEN {}
    ELSE {mapping \in [ConfiguredKeyCodes(config) -> DOMAIN config] :
            \A key_code \in ConfiguredKeyCodes(config) :
                find_code_for_name(config[mapping[key_code]]) = Some(key_code)}

\* Mutant of find_button_for_key_code: a key code without a button answers
\* the button of some configured key.
find_button_for_key_code_defaulting(mapping, key_code) ==
    IF key_code \in DOMAIN mapping THEN Some(mapping[key_code])
    ELSE {mapping[other] : other \in {CHOOSE c \in DOMAIN mapping : TRUE}}

\* KeyCodeToButtonMapping::find_button_for_key_code
find_button_for_key_code(mapping, key_code) ==
    IF key_code \in DOMAIN mapping THEN Some(mapping[key_code]) ELSE None

\* Mutant of is_key_pressed: key repeats count as presses.
is_key_pressed_or_repeated(event) == event.kind = "KEY" /\ event.value >= 1

\* handle_key_presses: the pattern EventSummary::Key(_, key_code, 1).
is_key_pressed(event) == event.kind = "KEY" /\ event.value = 1

\* What the button device delivers under a configuration: releases,
\* presses and repeats of the configured keys, of a key of the table that
\* is not configured and of a key outside the table, and a
\* synchronisation event.
ButtonDeviceCodes(config) ==
    ConfiguredKeyCodes(config)
    \cup {CHOOSE key_code \in KeyCodes : key_code \notin ConfiguredKeyCodes(config)}
    \cup {KEY_ENTER}

ButtonEvents(config) ==
    {RawEvent("buttons", "KEY", key_code, value) :
        key_code \in ButtonDeviceCodes(config), value \in KeyValues}
    \cup {RawEvent("buttons", "SYN", 0, 0)}

\* One button on one key name, for every button and every key name, known
\* or not; and two buttons on two keys, and on the same key.
ButtonConfigs ==
    {[b \in {button} |-> name] : button \in Button, name \in KeyNames \cup UnknownKeyNames}
    \cup {[b \in {"Button1", "Button2"} |-> IF b = "Button1" THEN "a" ELSE "b"],
          [b \in {"Button1", "Button2"} |-> "a"]}

\* The digit of a digit key, KEY_1 (2) to KEY_0 (11).
DigitKeys == <<"1", "2", "3", "4", "5", "6", "7", "8", "9", "0">>

\* The digit keys released since the last Enter release, after this event.
digits_after(digits, event) ==
    IF event.kind = "KEY" /\ event.value = 0
    THEN IF event.key_code = KEY_ENTER THEN ""
         ELSE IF event.key_code \in KEY_1..KEY_0
              THEN digits \o DigitKeys[event.key_code - 1]
              ELSE digits
    ELSE digits

\* The button listener with one button on a joystick key and one on a
\* gamepad key.
ListenerConfigs ==
    {[b \in {"Button1", "Button2"} |-> IF b = "Button1" THEN "trigger" ELSE "a"]}

\* No listener runs.
ListenerIdle ==
    /\ buttons_to_key_code_names = <<>>
    /\ key_codes_to_buttons = <<>>
    /\ button_listener = "none"
    /\ tag_listener = "none"
    /\ chars_read = ""
    /\ raw_event = NoRawEvent
    /\ released_digits = ""

----------------------------------------------------------------------------
\* Initial state: the Client as constructed by main.rs::run, nothing sent yet.

ClientInit ==
    /\ user_mode \in UserModes
    /\ admin_tags \in AdminTagSets
    /\ channel = <<>>
    /\ pc = "start"
    /\ current_user = default_current_user
    /\ prev_user = default_current_user
    /\ last_event = NoEvent
    /\ api_log = <<>>
    /\ sound_log = <<>>
    /\ sign_on_count = 0
    /\ sign_off_count = 0
    /\ in_flight = NoEvent

Init == ClientInit /\ KeyIdle /\ ListenerIdle

\* Producers (events.rs): a send appends to the channel and never blocks.

\* EventSender::send
send(msg) ==
    /\ Len(channel) < MaxQueue
    /\ channel' = Append(channel, msg)
    /\ UNCHANGED <<user_mode, admin_tags, pc, current_user, prev_user, last_event,
                   api_log, sound_log, sign_on_count, sign_off_count, in_flight>>
    /\ UNCHANGED key_vars

\* EventSender::send_tag_read, for any tag
send_tag_read ==
    /\ \E tag \in TagValues : send(TagRead(tag))
    /\ UNCHANGED listener_vars

\* EventSender::send_button_pressed, for any button
send_button_pressed ==
    /\ \E button \in Button : send(ButtonPressed(button))
    /\ UNCHANGED listener_vars

\* EventSender::send_shutdown_requested
send_shutdown_requested ==
    /\ send(ShutdownRequested)
    /\ UNCHANGED listener_vars

\* Client::run: the one sign_on call is made before handle_events.
begin_sign_on ==
    /\ pc = "start"
    /\ in_flight = NoEvent
    /\ in_flight' = SignOnCall
    /\ sign_on_count' = sign_on_count + 1
    /\ UNCHANGED <<user_mode, admin_tags, channel, pc, current_user, prev_user,
                   last_event, api_log, sound_log, sign_off_count>>
    /\ UNCHANGED <<key_vars, listener_vars>>

\* Mutant of after_sign_on: a failed sign_on ends the run.
after_sign_on_propagating(outcome) ==
    IF \E i \in 1..Len(outcome.api) : outcome.api[i].res = "Err"
    THEN "done" ELSE "receiving"

\* Client::run: sign_on always returns Ok, so handle_events follows
\* whatever the outcome of the call.
after_sign_on(outcome) == "receiving"

\* Client::run up to the loop: sign_on returns, whatever its outcome, and
\* handle_events starts with the default current user.
run_sign_on ==
    /\ pc = "start"
    /\ in_flight = SignOnCall
    /\ \E o \in sign_on :
         /\ api_log' = o.api
         /\ sound_log' = o.sounds
         /\ pc' = after_sign_on(o)
    /\ in_flight' = NoEvent
    /\ prev_user' = current_user
    /\ current_user' = default_current_user
    /\ last_event' = NoEvent
    /\ UNCHANGED <<user_mode, admin_tags, channel, sign_on_count, sign_off_count>>
    /\ UNCHANGED <<key_vars, listener_vars>>

\* Mutant of next_event: a ShutdownRequested anywhere in the channel is
\* taken ahead of the events sent before it.
next_event_shutdown_first(queue) ==
    IF \E i \in 1..Len(queue) : queue[i].type = "ShutdownRequested"
    THEN CHOOSE i \in 1..Len(queue) : queue[i].type = "ShutdownRequested"
    ELSE 1

\* Mutant of next_event: the newest event of the channel is received next.
next_event_newest(queue) == Len(queue)

\* Receiver::iter: the position in the channel of the event received
\* next, which is the oldest one.
next_event(queue) == 1

\* The channel without its i-th event.
Without(queue, i) == SubSeq(queue, 1, i - 1) \o SubSeq(queue, i + 1, Len(queue))

\* handle_events: the loop receives the next event of the channel, which
\* starts a step.
receive_event ==
    /\ pc = "receiving"
    /\ in_flight = NoEvent
    /\ channel # <<>>
    /\ in_flight' = channel[next_event(channel)]
    /\ channel' = Without(channel, next_event(channel))
    /\ last_event' = NoEvent
    /\ prev_user' = current_user
    /\ api_log' = <<>>
    /\ sound_log' = <<>>
    /\ UNCHANGED <<user_mode, admin_tags, pc, current_user, sign_on_count,
                   sign_off_count>>
    /\ UNCHANGED <<key_vars, listener_vars>>

\* One iteration of the loop of handle_events, from the received event on:
\* run the mode's handler, apply its result.  A handler that panics ends
\* the Coordinator without applying anything.
handle_events ==
    /\ pc = "receiving"
    /\ in_flight # NoEvent
    /\ LET event == in_flight
       IN  \E o \in handle_event(event) :
             /\ last_event' = event
             /\ api_log' = o.api
             /\ sound_log' = o.sounds
             /\ sign_off_count' = sign_off_count + CountOp(o.api, "sign_off")
             /\ current_user' = IF o.panicked THEN current_user
                                              ELSE next_current_user(o.result)
             /\ pc' = IF o.panicked THEN "panicked" ELSE next_pc(o.result)
    /\ in_flight' = NoEvent
    /\ UNCHANGED <<user_mode, admin_tags, channel, prev_user, sign_on_count>>
    /\ UNCHANGED <<key_vars, listener_vars>>

Next ==
    \/ send_tag_read
    \/ send_button_pressed
    \/ send_shutdown_requested
    \/ begin_sign_on
    \/ run_sign_on
    \/ receive_event
    \/ handle_events

Spec == Init /\ [][Next]_vars

\* The Coordinator runs on the main thread, which the scheduler keeps
\* running, and every API and audio call returns: each Coordinator action
\* that stays enabled is eventually taken.  Producers are under no
\* obligation to send.
FairSpec ==
    /\ Spec
    /\ WF_vars(begin_sign_on)
    /\ WF_vars(run_sign_on)
    /\ WF_vars(receive_event)
    /\ WF_vars(handle_events)

----------------------------------------------------------------------------
\* The translator on its own: one name and one code are looked up.

\* The Coordinator as constructed, left alone.
ClientIdle == ClientInit /\ user_mode = MultiUser /\ admin_tags = {}

KeyCodeInit ==
    /\ ClientIdle
    /\ ListenerIdle
    /\ key_query \in (KeyNames \cup UnknownKeyNames) \X (KeyCodes \cup UnknownKeyCodes)
    /\ key_found = <<FALSE, None, FALSE, None>>

\* KeyCodeToButtonMapping::new looks up the code of a configured key name.
lookup_code_for_name ==
    /\ ~key_found[1]
    /\ key_found' = [key_found EXCEPT ![1] = TRUE,
                                       ![2] = find_code_for_name(key_query[1])]
    /\ UNCHANGED <<client_vars, key_query, listener_vars>>

\* identify_buttons looks up the name of the code of a pressed key.
lookup_name_for_code ==
    /\ ~key_found[3]
    /\ key_found' = [key_found EXCEPT ![3] = TRUE,
                                       ![4] = find_name_for_code(key_query[2])]
    /\ UNCHANGED <<client_vars, key_query, listener_vars>>

KeyCodeNext == lookup_code_for_name \/ lookup_name_for_code

KeyCodeSpec == KeyCodeInit /\ [][KeyCodeNext]_vars

----------------------------------------------------------------------------
\* The Device Listeners on their own, fed raw input events.

\* devices.rs::open_input_device: the device is opened and grabbed, or
\* opening it fails, or grabbing it fails.
open_input_device == {"Ok", "open_failed", "grab_failed"}

\* handle_button_presses, as far as the listener goes: the map from key
\* codes to buttons is built from the configuration, the device opened and
\* the listener thread started; an unknown key name is an error, and so is
\* a device that cannot be opened or grabbed.
start_button_listener(outcome) ==
    /\ button_listener = "none"
    /\ IF KeyCodeToButtonMapping_new(buttons_to_key_code_names) = {}
       THEN /\ button_listener' = "failed"
            /\ UNCHANGED key_codes_to_buttons
       ELSE IF outcome # "Ok"
            THEN /\ button_listener' = outcome
                 /\ UNCHANGED key_codes_to_buttons
            ELSE /\ key_codes_to_buttons' \in KeyCodeToButtonMapping_new(buttons_to_key_code_names)
                 /\ button_listener' = "running"
    /\ UNCHANGED <<buttons_to_key_code_names, tag_listener, chars_read, raw_event,
                   released_digits>>

\* handle_button_presses
handle_button_presses ==
    /\ \E outcome \in open_input_device : start_button_listener(outcome)
    /\ UNCHANGED <<client_vars, key_vars>>

\* ButtonHandler::handle_key_code
handle_key_code(key_code) ==
    IF find_button_for_key_code(key_codes_to_buttons, key_code) # None
    THEN send(ButtonPressed(Unwrap(find_button_for_key_code(key_codes_to_buttons, key_code))))
    ELSE UNCHANGED <<client_vars, key_vars>>

\* handle_key_presses: one raw event of the button device.
handle_key_presses ==
    /\ button_listener = "running"
    /\ \E event \in ButtonEvents(buttons_to_key_code_names) :
         /\ raw_event' = event
         /\ IF is_key_pressed(event)
            THEN handle_key_code(event.key_code)
            ELSE UNCHANGED <<client_vars, key_vars>>
    /\ UNCHANGED <<buttons_to_key_code_names, key_codes_to_buttons, button_listener,
                   tag_listener, chars_read, released_digits>>

\* handle_tag_reads, as far as the listener goes: the device is opened and
\* the listener thread started with an empty buffer, or the device cannot
\* be opened or grabbed.
start_tag_listener(outcome) ==
    /\ tag_listener = "none"
    /\ tag_listener' = IF outcome = "Ok" THEN "running" ELSE outcome
    /\ chars_read' = ""
    /\ UNCHANGED <<buttons_to_key_code_names, key_codes_to_buttons, button_listener,
                   raw_event, released_digits>>

\* handle_tag_reads
handle_tag_reads ==
    /\ \E outcome \in open_input_device : start_tag_listener(outcome)
    /\ UNCHANGED <<client_vars, key_vars>>

\* TagReadHandler::run: one raw event of a reader device with these keys.
TagReadHandler_run(key_codes) ==
    /\ tag_listener = "running"
    /\ \E event \in ReaderEvents(key_codes) :
         LET handled == TagReader_handle_event(chars_read, event)
         IN  /\ Len(handled[1]) <= MaxTagLen
             /\ chars_read' = handled[1]
             /\ raw_event' = event
             /\ released_digits' = digits_after(released_digits, event)
             /\ IF handled[2] # None
                THEN send(TagRead(Unwrap(handled[2])))
                ELSE UNCHANGED <<client_vars, key_vars>>
    /\ UNCHANGED <<buttons_to_key_code_names, key_codes_to_buttons, button_listener,
                   tag_listener>>

\* The button listener under every configuration.
ButtonInit ==
    /\ ClientIdle
    /\ KeyIdle
    /\ buttons_to_key_code_names \in ButtonConfigs
    /\ key_codes_to_buttons = <<>>
    /\ button_listener = "none"
    /\ tag_listener = "none"
    /\ chars_read = ""
    /\ raw_event = NoRawEvent
    /\ released_digits = ""

ButtonNext == handle_button_presses \/ handle_key_presses

ButtonSpec == ButtonInit /\ [][ButtonNext]_vars

\* Both listeners.
ListenerInit ==
    /\ ClientIdle
    /\ KeyIdle
    /\ buttons_to_key_code_names \in ListenerConfigs
    /\ key_codes_to_buttons = <<>>
    /\ button_listener = "none"
    /\ tag_listener = "none"
    /\ chars_read = ""
    /\ raw_event = NoRawEvent
    /\ released_digits = ""

ListenerNext ==
    \/ handle_button_presses
    \/ handle_key_presses
    \/ handle_tag_reads
    \/ TagReadHandler_run(FewReaderKeys)

ListenerSpec == ListenerInit /\ [][ListenerNext]_vars

\* The tag listener alone, on the reader with two digit keys.
TagNext == handle_tag_reads \/ TagReadHandler_run(ReaderKeys)

TagSpec == ListenerInit /\ [][TagNext]_vars

----------------------------------------------------------------------------
\* The whole process (main.rs::run): startup on the main thread, then the
\* Coordinator there, with the listener threads and the signal handler as
\* producers.  What a listener sends for which input is the subject of
\* ListenerSpec; here a running listener sends any event of its kind.

\* config.reader_input_device: configured or not.
ReaderInputDevices == {None, Some("reader")}

\* One configuration that handle_button_presses accepts, one it rejects.
SystemConfigs == ListenerConfigs \cup {[b \in {"Button1"} |-> "bogus"]}

\* The process runs until run returns or the main thread panics.
Running == pc \notin {"panicked", "done", "failed"}

\* Mutant of after_open: a device that cannot be grabbed is used as it is.
after_open_ungrabbed(outcome, next) ==
    IF outcome = "open_failed" THEN "failed" ELSE next

\* The ? on handle_tag_reads and on handle_button_presses: run goes on
\* with the device opened and grabbed, and returns the error otherwise.
after_open(outcome, next) ==
    IF outcome = "Ok" THEN next ELSE "failed"

\* Mutant of thread_spawn: run joins the listener thread and returns its
\* error.
thread_spawn_joined(state, result) ==
    IF result = "Err" THEN "failed" ELSE state

\* thread::spawn with the JoinHandle dropped: what the listener thread
\* returns reaches nobody, and run is where it was.
thread_spawn(state, result) == state

\* The state after main.rs:72-77: the channel is created and the Ctrl-C
\* handler installed; no listener runs and no Client exists.
SystemInit ==
    /\ user_mode \in UserModes
    /\ admin_tags \in AdminTagSets
    /\ channel = <<>>
    /\ pc = "main"
    /\ current_user = default_current_user
    /\ prev_user = default_current_user
    /\ last_event = NoEvent
    /\ api_log = <<>>
    /\ sound_log = <<>>
    /\ sign_on_count = 0
    /\ sign_off_count = 0
    /\ in_flight = NoEvent
    /\ KeyIdle
    /\ buttons_to_key_code_names \in SystemConfigs
    /\ key_codes_to_buttons = <<>>
    /\ button_listener = "none"
    /\ tag_listener = "none"
    /\ chars_read = ""
    /\ raw_event = NoRawEvent
    /\ released_digits = ""

\* run, the tag listener: started in multi-user mode only, where a reader
\* device must be configured and must open.
main_run_tag_reads ==
    /\ pc = "main"
    /\ IF user_mode.kind = "MultiUser"
       THEN \E device \in ReaderInputDevices :
              IF device = None
              THEN /\ tag_listener' = "unconfigured"
                   /\ pc' = "failed"
                   /\ UNCHANGED <<buttons_to_key_code_names, key_codes_to_buttons,
                                  button_listener, chars_read, raw_event,
                                  released_digits>>
              ELSE \E outcome \in open_input_device :
                     /\ start_tag_listener(outcome)
                     /\ pc' = after_open(outcome, "buttons")
       ELSE /\ pc' = "buttons"
            /\ UNCHANGED listener_vars
    /\ UNCHANGED <<user_mode, admin_tags, channel, current_user, prev_user,
                   last_event, api_log, sound_log, sign_on_count, sign_off_count,
                   in_flight>>
    /\ UNCHANGED key_vars

\* run, the button listener: started in either mode.
main_run_button_presses ==
    /\ pc = "buttons"
    /\ \E outcome \in open_input_device :
         /\ start_button_listener(outcome)
         /\ pc' = IF KeyCodeToButtonMapping_new(buttons_to_key_code_names) = {}
                  THEN "failed"
                  ELSE after_open(outcome, "client")
    /\ UNCHANGED <<user_mode, admin_tags, channel, current_user, prev_user,
                   last_event, api_log, sound_log, sign_on_count, sign_off_count,
                   in_flight>>
    /\ UNCHANGED key_vars

\* Mutant of main_run_client_new: the Client starts with its loop, without
\* sign_on.
main_run_client_new_looping ==
    /\ pc = "client"
    /\ pc' = "receiving"
    /\ UNCHANGED <<user_mode, admin_tags, channel, current_user, prev_user,
                   last_event, api_log, sound_log, sign_on_count, sign_off_count,
                   in_flight>>
    /\ UNCHANGED <<key_vars, listener_vars>>

\* run, Client::new: the audio output opens, or run returns the error.
main_run_client_new ==
    /\ pc = "client"
    /\ \E opened \in ApiResults : pc' = IF opened = "Ok" THEN "start" ELSE "failed"
    /\ UNCHANGED <<user_mode, admin_tags, channel, current_user, prev_user,
                   last_event, api_log, sound_log, sign_on_count, sign_off_count,
                   in_flight>>
    /\ UNCHANGED <<key_vars, listener_vars>>

\* handle_ctrl_c: the signal handler sends ShutdownRequested, at any time
\* from startup on.
handle_ctrl_c ==
    /\ Running
    /\ send_shutdown_requested

\* TagReadHandler::run sends a tag it has read.
TagReadHandler_sends ==
    /\ Running
    /\ tag_listener = "running"
    /\ send_tag_read

\* ButtonHandler::handle_key_code sends a button of the map.
ButtonHandler_sends ==
    /\ Running
    /\ button_listener = "running"
    /\ \E key_code \in DOMAIN key_codes_to_buttons : handle_key_code(key_code)
    /\ UNCHANGED listener_vars

\* TagReadHandler::run: fetch_events fails, run returns the error and the
\* thread ends.
TagReadHandler_run_fails ==
    /\ Running
    /\ tag_listener = "running"
    /\ tag_listener' = "ended"
    /\ pc' = thread_spawn(pc, "Err")
    /\ UNCHANGED <<user_mode, admin_tags, channel, current_user, prev_user,
                   last_event, api_log, sound_log, sign_on_count, sign_off_count,
                   in_flight>>
    /\ UNCHANGED <<key_vars, buttons_to_key_code_names, key_codes_to_buttons,
                   button_listener, chars_read, raw_event, released_digits>>

\* handle_key_presses: fetch_events fails, the closure returns the error
\* and the thread ends.
handle_key_presses_fails ==
    /\ Running
    /\ button_listener = "running"
    /\ button_listener' = "ended"
    /\ pc' = thread_spawn(pc, "Err")
    /\ UNCHANGED <<user_mode, admin_tags, channel, current_user, prev_user,
                   last_event, api_log, sound_log, sign_on_count, sign_off_count,
                   in_flight>>
    /\ UNCHANGED <<key_vars, buttons_to_key_code_names, key_codes_to_buttons,
                   tag_listener, chars_read, raw_event, released_digits>>

SystemNext ==
    \/ main_run_tag_reads
    \/ main_run_button_presses
    \/ main_run_client_new
    \/ handle_ctrl_c
    \/ TagReadHandler_sends
    \/ ButtonHandler_sends
    \/ TagReadHandler_run_fails
    \/ handle_key_presses_fails
    \/ begin_sign_on
    \/ run_sign_on
    \/ receive_event
    \/ handle_events

SystemSpec == SystemInit /\ [][SystemNext]_vars

----------------------------------------------------------------------------
\* The tag listener and the Coordinator in multi-user mode: the raw events
\* of the reader, through the channel, to the handler of TagRead.  No
\* button is pressed and no shutdown requested.

\* The admin tags absent, or the empty string an admin tag.
FlowAdminTagSets == {{}, {""}}

\* A reader with one digit key (KEY_4) and KEY_ENTER.
FlowReaderKeys == {5, KEY_ENTER}

TagFlowInit ==
    /\ user_mode = MultiUser
    /\ admin_tags \in FlowAdminTagSets
    /\ channel = <<>>
    /\ pc = "main"
    /\ current_user = default_current_user
    /\ prev_user = default_current_user
    /\ last_event = NoEvent
    /\ api_log = <<>>
    /\ sound_log = <<>>
    /\ sign_on_count = 0
    /\ sign_off_count = 0
    /\ in_flight = NoEvent
    /\ KeyIdle
    /\ buttons_to_key_code_names \in ListenerConfigs
    /\ key_codes_to_buttons = <<>>
    /\ button_listener = "none"
    /\ tag_listener = "none"
    /\ chars_read = ""
    /\ raw_event = NoRawEvent
    /\ released_digits = ""

\* TagReadHandler::run while the process runs.
TagReadHandler_runs ==
    /\ Running
    /\ TagReadHandler_run(FlowReaderKeys)

TagFlowNext ==
    \/ main_run_tag_reads
    \/ main_run_button_presses
    \/ main_run_client_new
    \/ TagReadHandler_runs
    \/ begin_sign_on
    \/ run_sign_on
    \/ receive_event
    \/ handle_events

TagFlowSpec == TagFlowInit /\ [][TagFlowNext]_vars

----------------------------------------------------------------------------
\* What the most recent Coordinator step was, for the properties below.

MultiUserMode == user_mode.kind = "MultiUser"
SingleUserMode == user_mode.kind = "SingleUser"

\* The most recent step took an event of this type from the channel.
Handled(type) == last_event.type = type

\* The handler of the most recent step returned (it did not panic).
Finished == pc \in {"receiving", "done"}

\* The API calls of the most recent step with this operation.
CallsOf(op) == {i \in 1..Len(api_log) : api_log[i].op = op}

\* The most recent step handled a TagRead whose lookup answered Ok(None).
ResolvedUnknown ==
    /\ Handled("TagRead")
    /\ \E i \in CallsOf("get_tag_details") : api_log[i].res = "None"

\* The most recent step was a button press dispatched for an identified
\* user on a mapped button, and the whereabouts name of that button.
IdentifiedUserPress ==
    /\ Handled("ButtonPressed")
    /\ last_event.button \in DOMAIN buttons_to_whereabouts
    /\ SingleUserMode \/ prev_user.kind = "User"
PressWhereabouts == buttons_to_whereabouts[last_event.button]

\* Some API call or audio play of the most recent step failed.
StepHadFailure ==
    \/ \E i \in 1..Len(api_log) : api_log[i].res = "Err"
    \/ \E i \in 1..Len(sound_log) : ~sound_log[i].ok

----------------------------------------------------------------------------
\* C1: in multi-user mode a ButtonPressed handled while CurrentUser is None
\* makes no API call at all and leaves CurrentUser None, whichever the
\* button and however many such presses came before.
C1_NoUserButtonIgnored ==
    (MultiUserMode /\ Handled("ButtonPressed") /\ prev_user = CurrentUserNone)
        => /\ api_log = <<>>
           /\ current_user = CurrentUserNone
           /\ pc = "receiving"

\* C1 witness: a press on a mapped button was handled with no user, right
\* after another step that had left CurrentUser None, and one more press waits.
C1_Witness ==
    /\ MultiUserMode /\ Handled("ButtonPressed") /\ prev_user = CurrentUserNone
    /\ last_event.button \in DOMAIN buttons_to_whereabouts
    /\ channel # <<>> /\ Head(channel).type = "ButtonPressed"

\* C2 (as stated): in multi-user mode a ButtonPressed on a mapped button
\* handled while CurrentUser is User(u) makes exactly one API call,
\* update_status(u, w), and CurrentUser is None afterwards, whether the
\* call succeeded or failed.
C2_OneUpdateThenReset ==
    (MultiUserMode /\ IdentifiedUserPress)
        => /\ Len(api_log) = 1
           /\ api_log[1].op = "update_status"
           /\ api_log[1].user = prev_user.id
           /\ api_log[1].arg = PressWhereabouts
           /\ current_user = CurrentUserNone

\* C3 (as stated): an identified-user press on a mapped button plays exactly
\* one sound: on success a member of the configured list when that list is
\* not empty, the generic "status updated" sound when there is no list or an
\* empty one; on failure the "communication failed" sound.
C3_OneFeedbackSound ==
    IdentifiedUserPress
        => /\ Len(sound_log) = 1
           /\ LET w == PressWhereabouts
                  configured == IF w \in DOMAIN whereabouts_sounds
                                THEN whereabouts_sounds[w] ELSE <<>>
              IN  /\ (api_log[1].res = "Ok" /\ configured # <<>>)
                        => sound_log[1].name \in SeqElems(configured)
                  /\ (api_log[1].res = "Ok" /\ configured = <<>>)
                        => sound_log[1].name = "whereabouts_status_updated"
                  /\ api_log[1].res = "Err"
                        => sound_log[1].name = "communication_failed"

\* C4: in multi-user mode a TagRead whose lookup answers Ok(None) plays the
\* "unknown tag" sound exactly once, makes no update_status call, and leaves
\* CurrentUser None, whatever it was before.
C4_UnknownTagResets ==
    (MultiUserMode /\ ResolvedUnknown)
        => /\ Len(sound_log) = 1
           /\ sound_log[1].name = "user_tag_unknown"
           /\ CallsOf("update_status") = {}
           /\ current_user = CurrentUserNone

\* C4 witness: an unknown tag was read while a user was identified.
C4_Witness ==
    MultiUserMode /\ ResolvedUnknown /\ prev_user.kind = "User"

\* C5: in single-user mode CurrentUser is always User(configured id); no
\* step makes a get_tag_details call, a TagRead makes no API call, and
\* every update_status call carries the configured id.
C5_SingleUserFixed ==
    SingleUserMode
        => /\ current_user = CurrentUserUser(user_mode.id)
           /\ CallsOf("get_tag_details") = {}
           /\ Handled("TagRead") => api_log = <<>>
           /\ \A i \in CallsOf("update_status") : api_log[i].user = user_mode.id

\* C5 witness: a TagRead was handled in single-user mode.
C5_Witness == SingleUserMode /\ Handled("TagRead") /\ pc = "receiving"

\* C5 witness of the other half: an update_status call in single-user mode.
C5_WitnessUpdate == SingleUserMode /\ CallsOf("update_status") # {}

\* C6: handling a ShutdownRequested makes exactly one sign_off call and
\* ends the loop, in either mode and any CurrentUser; sign_off is never
\* called twice, and once the loop has ended exactly one call was made,
\* further ShutdownRequested events in the channel notwithstanding.
C6_OneSignOff ==
    /\ sign_off_count <= 1
    /\ Handled("ShutdownRequested")
          => /\ Cardinality(CallsOf("sign_off")) = 1
             /\ Len(api_log) = 1
             /\ sign_off_count = 1
             /\ pc = "done"
    /\ pc = "done" => sign_off_count = 1
    /\ sign_off_count = 1 => pc = "done"

\* C6 witness: the loop has ended on a ShutdownRequested handled while a
\* user was identified, and a second ShutdownRequested is in the channel.
C6_Witness ==
    /\ pc = "done" /\ Handled("ShutdownRequested")
    /\ prev_user.kind = "User" /\ MultiUserMode
    /\ \E i \in 1..Len(channel) : channel[i].type = "ShutdownRequested"

C7_WitnessUser ==
    Finished /\ Handled("ButtonPressed") /\ MultiUserMode /\ prev_user.kind = "User"
C7_WitnessSingle == Finished /\ Handled("ButtonPressed") /\ SingleUserMode
C7_WitnessUnknown == Finished /\ ResolvedUnknown /\ prev_user.kind = "User"

C8_WitnessLookup ==
    /\ MultiUserMode /\ Handled("TagRead") /\ admin_tags # {}
    /\ last_event.tag \notin admin_tags

C10_WitnessSignOn ==
    CallsOf("sign_on") # {} /\ api_log[1].res = "Err" /\ pc = "receiving"
C10_WitnessLookup ==
    CallsOf("get_tag_details") # {} /\ api_log[1].res = "Err" /\ pc = "receiving"

----------------------------------------------------------------------------
\* Sign-on before the loop.

\* The Coordinator is inside the sign_on call.
SigningOn == pc = "start" /\ in_flight = SignOnCall

\* The most recent step was the sign_on call.
SignedOn == CallsOf("sign_on") # {}

\* Exactly one sign_on call, made and finished before any event is taken;
\* once it has returned, failed or not, the loop is receiving and can take
\* the oldest event of the channel.
SignOnBeforeLoop ==
    /\ sign_on_count <= 1
    /\ (pc = "start") => /\ in_flight \in {NoEvent, SignOnCall}
                         /\ last_event = NoEvent
                         /\ sign_on_count = (IF SigningOn THEN 1 ELSE 0)
    /\ (pc # "start") => (sign_on_count = 1)
    /\ SignedOn => /\ Len(api_log) = 1
                   /\ pc = "receiving"
                   /\ in_flight = NoEvent
                   /\ (channel # <<>>) => ENABLED receive_event

\* While the Coordinator is inside sign_on the channel only grows: what a
\* step leaves in it starts with what was there.
SignOnKeepsChannel ==
    SigningOn => /\ Len(channel') >= Len(channel)
                 /\ SubSeq(channel', 1, Len(channel)) = channel

\* C11: the Coordinator makes exactly one sign_on call; until it has
\* returned no event is taken from the channel; once it has returned, failed
\* or not, the loop is receiving; and the return of sign_on leaves in the
\* channel every event enqueued before or during the call, from where the
\* loop can take the oldest.
C11_SignOnOnceBeforeLoop == []SignOnBeforeLoop /\ [][SignOnKeepsChannel]_vars

\* C11 witness: sign_on has failed, the loop is receiving, and events
\* enqueued before sign_on returned wait in the channel.
C11_Witness ==
    /\ SignedOn /\ api_log[1].res = "Err"
    /\ pc = "receiving" /\ Len(channel) = MaxQueue

\* C11 witness: an event was enqueued while sign_on was in progress.
C11_WitnessDuring == SigningOn /\ channel # <<>>

----------------------------------------------------------------------------
\* Shutdown requested while an event is being handled.

\* The Coordinator is inside the handling of an event other than
\* ShutdownRequested.
HandlingEarlierEvent ==
    /\ pc = "receiving"
    /\ in_flight # NoEvent
    /\ in_flight.type # "ShutdownRequested"

\* A ShutdownRequested waits in the channel.
ShutdownPending == \E i \in 1..Len(channel) : channel[i].type = "ShutdownRequested"

\* No sign_off call has been made while an earlier event is in flight or
\* ahead of the first ShutdownRequested in the channel; sign_off is only
\* made by the handling of a ShutdownRequested.
NoSignOffAhead ==
    /\ HandlingEarlierEvent => (sign_off_count = 0)
    /\ (CallsOf("sign_off") # {}) => Handled("ShutdownRequested")

\* A step taken while an earlier event is in flight and a ShutdownRequested
\* is pending either leaves the handling in flight, or finishes it with one
\* of the handler's own outcomes (all its API calls and sounds, failed or
\* not) and without a sign_off, the ShutdownRequested still queued.
InFlightRunsToCompletion ==
    (HandlingEarlierEvent /\ ShutdownPending)
        => \/ in_flight' = in_flight
           \/ /\ in_flight' = NoEvent
              /\ last_event' = in_flight
              /\ \E o \in handle_event(in_flight) :
                    api_log' = o.api /\ sound_log' = o.sounds
              /\ sign_off_count' = sign_off_count
              /\ channel' = channel

\* The loop takes a ShutdownRequested only from the head of the channel:
\* every event sent before it has been taken before.
ShutdownTakenInOrder ==
    (in_flight = NoEvent /\ in_flight'.type = "ShutdownRequested")
        => /\ channel # <<>>
           /\ Head(channel) = ShutdownRequested
           /\ channel' = Tail(channel)

\* C19: a ShutdownRequested enqueued behind an event that is being handled
\* does not cancel that handling, which ends with all the calls and sounds
\* of its handler; the ShutdownRequested is taken only after every event
\* sent before it, and no sign_off call is made until then.
C19_ShutdownWaitsForInFlight ==
    /\ []NoSignOffAhead
    /\ [][InFlightRunsToCompletion /\ ShutdownTakenInOrder]_vars

\* C19 witness: with a ShutdownRequested next in the channel, the press of
\* an identified user was handled in full, update_status and its sound
\* included, and no sign_off call was made yet.
C19_Witness ==
    /\ IdentifiedUserPress /\ Len(api_log) = 1 /\ Len(sound_log) = 1
    /\ channel # <<>> /\ Head(channel) = ShutdownRequested
    /\ in_flight = NoEvent /\ sign_off_count = 0

\* C19 witness: a ShutdownRequested waits while a tag lookup is in flight.
C19_WitnessInFlight ==
    HandlingEarlierEvent /\ in_flight.type = "TagRead" /\ ShutdownPending

----------------------------------------------------------------------------
\* Termination on shutdown.

\* A ShutdownRequested has been enqueued and not yet handled.
ShutdownEnqueued == ShutdownPending \/ in_flight = ShutdownRequested

\* C20 (as stated): under fair scheduling, with every API and audio call
\* returning, once a ShutdownRequested has been enqueued the Coordinator
\* eventually makes its sign_off call and its loop ends, whatever is queued
\* ahead of it.
C20_ShutdownEventuallySignsOff ==
    ShutdownEnqueued ~> (sign_off_count = 1 /\ pc = "done")

----------------------------------------------------------------------------
\* The Key-Code Translator as a bijection.

\* The codes the table gives for a name, and the names it gives for a code.
TableCodesOf(name) ==
    {KeyCodeTable[i][2] : i \in {j \in 1..Len(KeyCodeTable) : KeyCodeTable[j][1] = name}}
TableNamesOf(code) ==
    {KeyCodeTable[i][1] : i \in {j \in 1..Len(KeyCodeTable) : KeyCodeTable[j][2] = code}}

\* C13: for every pair of the table the lookup of its name answers Some of
\* its code and the lookup of its code Some of its name; a name or a code
\* outside the table answers None; and for any name and code, the name is
\* found for the code exactly when the code is found for the name, so no
\* two names share a code and no two codes a name.
C13_TranslatorIsBijection ==
    /\ key_found[1] => (key_found[2] = TableCodesOf(key_query[1]))
    /\ key_found[3] => (key_found[4] = TableNamesOf(key_query[2]))
    /\ key_found[1] => (Cardinality(key_found[2]) <= 1)
    /\ key_found[3] => (Cardinality(key_found[4]) <= 1)
    /\ (key_found[1] /\ key_found[3])
          => ((key_found[2] = Some(key_query[2])) <=> (key_found[4] = Some(key_query[1])))

\* C13 witness: a pair of the table was looked up in both directions.
C13_Witness ==
    /\ key_query = <<"a", 304>>
    /\ key_found = <<TRUE, Some(304), TRUE, Some("a")>>

\* C13 witness: a name and a code outside the table were looked up.
C13_WitnessUnknown ==
    /\ key_query[1] \in UnknownKeyNames /\ key_query[2] \in UnknownKeyCodes
    /\ key_found = <<TRUE, None, TRUE, None>>

----------------------------------------------------------------------------
\* The Button Listener.

\* The configured buttons whose key name the table gives this code.
ButtonsOnKey(key_code) ==
    {button \in DOMAIN buttons_to_key_code_names :
        key_code \in TableCodesOf(buttons_to_key_code_names[button])}

\* A step of the running button listener (no listener is started by it):
\* it handles raw_event'.
ButtonListenerStep ==
    /\ button_listener = "running"
    /\ UNCHANGED <<button_listener, tag_listener>>
    /\ raw_event'.device = "buttons"

C14_WitnessUnmapped ==
    /\ button_listener = "running"
    /\ raw_event.device = "buttons" /\ raw_event.kind = "KEY" /\ raw_event.value = 1
    /\ ButtonsOnKey(raw_event.key_code) = {}
    /\ channel = <<>>

----------------------------------------------------------------------------
\* The transition of a key that each listener acts on.

\* A step of the running tag listener (no listener is started by it): it
\* handles raw_event'.
TagListenerStep ==
    /\ tag_listener = "running"
    /\ UNCHANGED <<button_listener, tag_listener>>
    /\ raw_event'.device = "reader"

\* The raw event handled by this step is this transition of a key.
KeyTransition(value) == raw_event'.kind = "KEY" /\ raw_event'.value = value

C15_WitnessReaderPress ==
    /\ raw_event = RawEvent("reader", "KEY", 5, 1)
    /\ chars_read = "4" /\ channel = <<>>

----------------------------------------------------------------------------
\* The Tag Listener.

\* The raw event handled by this step is the release of one of these keys.
Released(key_codes) == KeyTransition(0) /\ raw_event'.key_code \in key_codes

\* The Enter release emits one TagRead of the digits released since the
\* last Enter release, in order, and empties the buffer; the release of a
\* digit key emits nothing; the release of any other key emits nothing and
\* leaves the buffer as it is.
ReleaseHandled ==
    TagListenerStep =>
        /\ Released({KEY_ENTER})
              => /\ channel' = Append(channel, TagRead(released_digits))
                 /\ chars_read' = ""
        /\ Released(KEY_1..KEY_0) => (channel' = channel)
        /\ (KeyTransition(0) /\ ~Released({KEY_ENTER}) /\ ~Released(KEY_1..KEY_0))
              => (channel' = channel /\ chars_read' = chars_read)

\* C16: the buffer always holds the digits of the digit keys released
\* since the previous Enter release (or since the start), in release order;
\* each Enter release emits exactly one TagRead with that value and leaves
\* the buffer empty; a release of a non-digit, non-Enter key emits nothing
\* and leaves the buffer unchanged.
C16_EnterEmitsDigitsRead ==
    [](chars_read = released_digits) /\ [][ReleaseHandled]_vars

\* C16 witness: KEY_4, Enter, KEY_2, KEY_4, Enter were released in this
\* order (among other events): TagRead("4"), then TagRead("24").
C16_Witness ==
    /\ raw_event = RawEvent("reader", "KEY", KEY_ENTER, 0)
    /\ channel = <<TagRead("4"), TagRead("24")>>
    /\ chars_read = ""

\* C16 witness: the letter key was released with digits in the buffer.
C16_WitnessOtherKey ==
    /\ raw_event = RawEvent("reader", "KEY", 30, 0)
    /\ chars_read = "42" /\ channel = <<>>

----------------------------------------------------------------------------
\* C17: startup failures.

\* A required input device is missing: the reader is not configured, or
\* the reader or the button device could not be opened or grabbed.
DeviceMissing ==
    \/ tag_listener \in {"open_failed", "grab_failed", "unconfigured"}
    \/ button_listener \in {"open_failed", "grab_failed"}

\* Nothing of the Coordinator has happened: no sign_on call, no event taken
\* from the channel, no API call, no sound.
NothingHandled ==
    /\ sign_on_count = 0
    /\ sign_off_count = 0
    /\ in_flight = NoEvent
    /\ last_event = NoEvent
    /\ api_log = <<>>
    /\ sound_log = <<>>

\* With a required device missing, startup has ended with an error and
\* nothing has been handled.
StartupFailsBeforeLoop == (DeviceMissing) => (pc = "failed" /\ NothingHandled)

\* After the error nothing happens any more, whatever is in the channel.
FailedStaysFailed == (pc = "failed") => (UNCHANGED vars)

\* C17: if opening or grabbing a required input device fails (the tag
\* device in multi-user mode, the button device in either mode), or
\* multi-user mode has no reader device configured, startup ends with an
\* error before the event loop starts: no sign_on call is made and no event
\* is ever handled.
C17_StartupFailsBeforeLoop ==
    []StartupFailsBeforeLoop /\ [][FailedStaysFailed]_vars

\* The button device cannot be grabbed in single-user mode, with a
\* ShutdownRequested waiting in the channel.
C17_Witness ==
    /\ button_listener = "grab_failed"
    /\ user_mode.kind = "SingleUser"
    /\ channel # <<>>

\* Multi-user mode without a configured reader device.
C17_WitnessUnconfigured ==
    /\ tag_listener = "unconfigured"
    /\ user_mode.kind = "MultiUser"

\* The button device cannot be opened after the tag listener has started
\* and sent a tag.
C17_WitnessAfterTagListener ==
    /\ button_listener = "open_failed"
    /\ tag_listener = "running"
    /\ \E i \in 1..Len(channel) : channel[i].type = "TagRead"

----------------------------------------------------------------------------
\* C18: a listener whose read fails.

\* This step is the failed read of a listener.
TagReadFails == tag_listener = "running" /\ tag_listener' = "ended"
KeyReadFails == button_listener = "running" /\ button_listener' = "ended"

ListenerEnded == tag_listener = "ended" \/ button_listener = "ended"

\* This step sends an event of this type.
Appended(type) ==
    /\ Len(channel') = Len(channel) + 1
    /\ channel'[Len(channel')].type = type

\* The failed read ends the listener and touches nothing else: the
\* Coordinator is where it was, with no sign_off call, the channel as it
\* was, and the other listener as it was.
ReadFailureEndsOnlyListener ==
    /\ (TagReadFails) => (UNCHANGED client_vars /\ UNCHANGED button_listener)
    /\ (KeyReadFails) => (UNCHANGED client_vars /\ UNCHANGED tag_listener)

\* A listener that has ended stays ended and sends nothing.
EndedListenerIsSilent ==
    /\ (tag_listener = "ended")
          => (tag_listener' = "ended" /\ ~Appended("TagRead"))
    /\ (button_listener = "ended")
          => (button_listener' = "ended" /\ ~Appended("ButtonPressed"))

\* With a listener ended, the signal handler and the other listener can
\* still send, and the Coordinator can still take and handle what is sent;
\* it has ended, or made a sign_off call, only by handling a
\* ShutdownRequested.
RestStillRuns ==
    (ListenerEnded /\ Running)
        => /\ (Len(channel) < MaxQueue) => (ENABLED handle_ctrl_c)
           /\ (Len(channel) < MaxQueue /\ tag_listener = "running")
                 => (ENABLED TagReadHandler_sends)
           /\ (Len(channel) < MaxQueue /\ button_listener = "running")
                 => (ENABLED ButtonHandler_sends)
           /\ (pc = "start") => (ENABLED begin_sign_on \/ ENABLED run_sign_on)
           /\ (pc = "receiving" /\ in_flight = NoEvent /\ channel # <<>>)
                 => (ENABLED receive_event)
           /\ (pc = "receiving" /\ in_flight # NoEvent)
                 => (ENABLED handle_events)

EndsOnlyOnShutdown ==
    (ListenerEnded)
        => /\ (pc = "done") => (Handled("ShutdownRequested"))
           /\ (sign_off_count > 0) => (Handled("ShutdownRequested"))

\* C18: when a listener's read fails mid-run, that listener thread ends and
\* emits no further events, while the rest keeps running: the Coordinator
\* neither ends nor signs off because of it, and the events of the other
\* listener and the ShutdownRequested of the signal handler are still
\* delivered and handled.
C18_ListenerFailureIsLocal ==
    /\ []RestStillRuns
    /\ []EndsOnlyOnShutdown
    /\ [][ReadFailureEndsOnlyListener /\ EndedListenerIsSilent]_vars

\* The tag listener has ended; a button press of the other listener was
\* handled and a ShutdownRequested waits.
C18_Witness ==
    /\ tag_listener = "ended"
    /\ button_listener = "running"
    /\ pc = "receiving"
    /\ Handled("ButtonPressed")
    /\ ShutdownPending

\* The button listener has ended; a tag is in flight.
C18_WitnessButtonEnded ==
    /\ button_listener = "ended"
    /\ tag_listener = "running"
    /\ in_flight.type = "TagRead"

\* Both listeners have ended and the ShutdownRequested was handled.
C18_WitnessBothEnded ==
    /\ tag_listener = "ended"
    /\ button_listener = "ended"
    /\ pc = "done"
    /\ Handled("ShutdownRequested")

----------------------------------------------------------------------------
\* C12: the channel between the producers and the Coordinator.

\* The type of its events tells the producer: the tag listener, the button
\* listener, the signal handler.
Producers == {"TagRead", "ButtonPressed", "ShutdownRequested"}

\* The events of one producer in a queue, oldest first.
OfType(queue, type) == SelectSeq(queue, LAMBDA event : event.type = type)

\* One queue is another with one more event at its end.
Extends(longer, queue) ==
    /\ Len(longer) = Len(queue) + 1
    /\ SubSeq(longer, 1, Len(queue)) = queue

\* The Coordinator is inside a call: sign_on, or the handler of an event.
Stalled == in_flight # NoEvent

\* This step takes an event from the channel.
Received == in_flight = NoEvent /\ in_flight'.type \in Producers

\* What a step does to the waiting events of each producer: nothing, or
\* the producer's new event goes behind them, or the Coordinator takes the
\* oldest of them.  The event the Coordinator takes is the event it
\* handles.
PerProducerOrder ==
    /\ \A type \in Producers :
          \/ OfType(channel', type) = OfType(channel, type)
          \/ Extends(OfType(channel', type), OfType(channel, type))
          \/ /\ Received
             /\ OfType(channel, type) # <<>>
             /\ in_flight' = Head(OfType(channel, type))
             /\ OfType(channel', type) = Tail(OfType(channel, type))
    /\ (in_flight.type \in Producers /\ in_flight' # in_flight)
          => (in_flight' = NoEvent /\ last_event' = in_flight)

\* What a step does to the channel as a whole: nothing, or an event goes
\* to its end, or the Coordinator takes its head.  So whatever was sent
\* before a ShutdownRequested is taken before it, in the order sent.
NothingLostOrReordered ==
    \/ channel' = channel
    \/ Extends(channel', channel) /\ in_flight' = in_flight
    \/ /\ Received
       /\ channel # <<>>
       /\ in_flight' = Head(channel)
       /\ channel' = Tail(channel)

\* While the Coordinator is inside a call, every producer that runs can
\* send.
SendsNeverBlock ==
    (Running /\ Stalled /\ Len(channel) < MaxQueue)
        => /\ ENABLED handle_ctrl_c
           /\ (tag_listener = "running") => (ENABLED TagReadHandler_sends)
           /\ (button_listener = "running") => (ENABLED ButtonHandler_sends)

\* C12: with the tag listener, the button listener and the signal handler
\* sending concurrently, the Coordinator handles the events of each
\* producer in the order that producer sent them; while the Coordinator is
\* inside an API or audio call every send still succeeds without blocking,
\* and no event sent before a ShutdownRequested is lost or reordered.
C12_ProducersKeepOrder ==
    /\ []SendsNeverBlock
    /\ [][PerProducerOrder /\ NothingLostOrReordered]_vars

\* While a tag is being handled, a button press and then a
\* ShutdownRequested wait in the channel.
C12_Witness ==
    /\ pc = "receiving"
    /\ in_flight.type = "TagRead"
    /\ Len(channel) = 2
    /\ channel[1].type = "ButtonPressed"
    /\ channel[2] = ShutdownRequested

\* Two tags of the tag listener wait while sign_on is in flight.
C12_WitnessSameProducer ==
    /\ in_flight = SignOnCall
    /\ channel = <<TagRead("42"), TagRead("7")>>

\* The first of two button presses was handled; the second is next.
C12_WitnessSecondNext ==
    /\ last_event = ButtonPressed("Button1")
    /\ in_flight = NoEvent
    /\ channel # <<>>
    /\ Head(channel) = ButtonPressed("Button2")

----------------------------------------------------------------------------
\* C21: a button without a whereabouts name.

\* The most recent step was a button press dispatched for an identified
\* user on a button with no entry in buttons_to_whereabouts.
UnmappedUserPress ==
    /\ Handled("ButtonPressed")
    /\ last_event.button \notin DOMAIN buttons_to_whereabouts
    /\ SingleUserMode \/ prev_user.kind = "User"

\* C21: in identified-user button dispatch (single-user mode, or multi-user
\* mode with CurrentUser = User(id)), a ButtonPressed for a button with no
\* whereabouts name makes no update_status call and plays no sound, and
\* CurrentUser is still reset to the mode default, so that in multi-user
\* mode the identified user is discarded.
C21_UnmappedPressOnlyResets ==
    (UnmappedUserPress)
        => /\ api_log = <<>>
           /\ sound_log = <<>>
           /\ pc = "receiving"
           /\ current_user = default_current_user
           /\ (MultiUserMode) => (current_user = CurrentUserNone)

\* C21 witness: in multi-user mode a user was identified and an unmapped
\* button pressed.
C21_Witness ==
    /\ UnmappedUserPress
    /\ MultiUserMode
    /\ prev_user = CurrentUserUser("u2")

\* C21 witness: an unmapped button pressed in single-user mode.
C21_WitnessSingle == UnmappedUserPress /\ SingleUserMode

----------------------------------------------------------------------------
\* C22: whom an update_status call is made for.  The claim speaks of the
\* most recent handled TagRead; it is stated step by step: what a handled
\* TagRead leaves in CurrentUser, that CurrentUser becomes a user by
\* nothing else, what a handled ButtonPressed leaves, and whom the
\* update_status calls of a step are for.

\* After a handled TagRead, CurrentUser is what this TagRead gave, whatever
\* it was before: the user of a match, None on no match and on a failed
\* lookup (and Admin for an admin tag).
TagReadReplacesUser ==
    (MultiUserMode /\ Handled("TagRead"))
        => /\ pc = "receiving"
           /\ (last_event.tag \in admin_tags) => (current_user = CurrentUserAdmin)
           /\ (last_event.tag \notin admin_tags)
                 => /\ Len(api_log) = 1
                    /\ api_log[1].op = "get_tag_details"
                    /\ (api_log[1].res = "Some")
                          => (current_user = CurrentUserUser(api_log[1].user))
                    /\ (api_log[1].res # "Some")
                          => (current_user = CurrentUserNone)

\* The update_status calls of a step: at most one, made by a ButtonPressed
\* for the user CurrentUser held when the press was taken.
UpdateForCurrentUser ==
    (MultiUserMode /\ CallsOf("update_status") # {})
        => /\ Handled("ButtonPressed")
           /\ Cardinality(CallsOf("update_status")) = 1
           /\ \A i \in CallsOf("update_status") :
                 prev_user = CurrentUserUser(api_log[i].user)

\* A handled ButtonPressed leaves no user behind, unless the Coordinator
\* has ended in it.
PressSpendsUser ==
    (MultiUserMode /\ Handled("ButtonPressed"))
        => (current_user = CurrentUserNone \/ pc = "panicked")

\* CurrentUser becomes a user, or another user, only in the step that
\* handles a TagRead whose lookup matched that user.
UserOnlyFromTagRead ==
    (MultiUserMode /\ current_user'.kind = "User" /\ current_user' # current_user)
        => /\ in_flight.type = "TagRead"
           /\ last_event' = in_flight
           /\ api_log' = <<ApiCall("get_tag_details", current_user'.id,
                                   in_flight.tag, "Some")>>

\* A Coordinator that has ended handles nothing more.
EndedCoordinatorRests ==
    (pc \in {"panicked", "done"})
        => (UNCHANGED <<pc, current_user, prev_user, last_event, api_log,
                       sound_log, in_flight>>)

\* C22: in multi-user mode every update_status(u, w) call is made for the
\* user u of the most recent handled TagRead, which resolved to a user, with
\* no ButtonPressed handled since: a TagRead handled while CurrentUser is
\* already User(a) replaces a (by the new user on a match, by None on no
\* match or a failed lookup), and one resolved TagRead authorizes at most
\* one update_status call.
C22_UpdateForLatestTag ==
    /\ []TagReadReplacesUser
    /\ []UpdateForCurrentUser
    /\ []PressSpendsUser
    /\ [][UserOnlyFromTagRead /\ EndedCoordinatorRests]_vars

\* C22 witness: the update_status call for the user of a tag that was read
\* while another user was identified.
C22_Witness ==
    /\ MultiUserMode
    /\ Handled("ButtonPressed")
    /\ CallsOf("update_status") # {}
    /\ prev_user = CurrentUserUser("u2")
    /\ current_user = CurrentUserNone

\* C22 witness: a tag matched u2 while u1 was identified.
C22_WitnessReplaced ==
    /\ MultiUserMode
    /\ Handled("TagRead")
    /\ prev_user = CurrentUserUser("u1")
    /\ current_user = CurrentUserUser("u2")

\* C22 witness: a lookup failed while u1 was identified, and a button
\* press waits.
C22_WitnessDiscarded ==
    /\ MultiUserMode
    /\ Handled("TagRead")
    /\ prev_user = CurrentUserUser("u1")
    /\ \E i \in CallsOf("get_tag_details") : api_log[i].res = "Err"
    /\ channel # <<>>
    /\ Head(channel).type = "ButtonPressed"

----------------------------------------------------------------------------
\* C23: sign_on before sign_off.

\* run has not reached the loop of handle_events.
BeforeLoop == pc \in {"start", "buttons", "main", "client"}

\* The loop runs, or has run, only with the one sign_on call made and
\* returned; a sign_off call was made only then.
SignOnBeforeSignOff ==
    /\ sign_on_count <= 1
    /\ (~BeforeLoop /\ pc # "failed")
          => (sign_on_count = 1 /\ in_flight # SignOnCall)
    /\ (sign_off_count > 0 \/ CallsOf("sign_off") # {})
          => (sign_on_count = 1 /\ pc = "done")
    /\ (BeforeLoop) => (sign_off_count = 0 /\ last_event = NoEvent)

\* The signal handler can send from the start of run on, before any
\* listener runs.
HandlerInstalledFirst ==
    (pc = "main" /\ Len(channel) < MaxQueue)
        => (tag_listener = "none" /\ button_listener = "none"
            /\ ENABLED handle_ctrl_c)

\* A ShutdownRequested sent before the loop does not keep sign_on from
\* being called.
SignOnDespiteShutdown ==
    (pc = "start" /\ ShutdownPending)
        => (ENABLED begin_sign_on \/ ENABLED run_sign_on)

\* Before the loop nothing is taken from the channel: what is sent stays
\* queued, in order.
QueuedUntilLoop ==
    (BeforeLoop)
        => (channel' = channel \/ Extends(channel', channel))

\* C23: the sign_off call, if any, is made after the sign_on call has
\* returned: the interrupt handler is installed before the listeners are
\* started and before sign_on, so a ShutdownRequested enqueued before the
\* Coordinator starts stays queued, sign_on is still attempted once, and
\* only then is the shutdown handled.
C23_SignOffAfterSignOn ==
    /\ []SignOnBeforeSignOff
    /\ []HandlerInstalledFirst
    /\ []SignOnDespiteShutdown
    /\ [][QueuedUntilLoop]_vars

\* C23 witness: sign_on is under way with a ShutdownRequested, sent before
\* it, at the head of the channel.
C23_Witness ==
    /\ in_flight = SignOnCall
    /\ sign_on_count = 1
    /\ sign_off_count = 0
    /\ channel # <<>>
    /\ Head(channel) = ShutdownRequested

\* C23 witness: a ShutdownRequested is queued before any listener runs.
C23_WitnessBeforeListeners ==
    /\ pc = "main"
    /\ channel = <<ShutdownRequested>>

\* C23 witness: the shutdown was handled as the first event of the loop,
\* after sign_on.
C23_WitnessHandled ==
    /\ pc = "done"
    /\ sign_on_count = 1
    /\ sign_off_count = 1
    /\ prev_user = default_current_user
    /\ tag_listener = "none"
    /\ Handled("ShutdownRequested")

----------------------------------------------------------------------------
\* C24: nothing after the sign_off.

SignedOff == sign_off_count > 0

\* With the sign_off call made, the loop has ended in the step that handled
\* the ShutdownRequested, and that step made the sign_off call and played
\* the sound of its outcome, nothing else.
SignOffEndsLoop ==
    (SignedOff)
        => /\ pc = "done"
           /\ in_flight = NoEvent
           /\ last_event = ShutdownRequested
           /\ Len(api_log) = 1
           /\ api_log[1].op = "sign_off"
           /\ Len(sound_log) = 1
           /\ sound_log[1].name = (IF api_log[1].res = "Ok" THEN "sign_off_successful"
                                                             ELSE "sign_off_failed")

\* From then on the Coordinator does nothing: no event is taken from the
\* channel, no call made, no sound played, while producers may go on
\* sending.
NothingAfterSignOff ==
    (SignedOff)
        => /\ UNCHANGED <<pc, in_flight, last_event, api_log, sound_log,
                          sign_on_count, sign_off_count, current_user, prev_user>>
           /\ (channel' = channel \/ Extends(channel', channel))

\* C24: events that are in the channel behind a handled ShutdownRequested,
\* or that are sent after it, are never handled: once the sign_off call has
\* been made no get_tag_details, update_status, sign_on or further sign_off
\* call occurs and no further sound is played but the sound of the
\* sign_off's success or failure.
C24_NothingAfterSignOff ==
    /\ []SignOffEndsLoop
    /\ [][NothingAfterSignOff]_vars

\* C24 witness: the sign_off call was made with a user identified, and a
\* tag and a button press are in the channel.
C24_Witness ==
    /\ SignedOff
    /\ MultiUserMode
    /\ current_user.kind = "User"
    /\ Len(channel) = 2
    /\ channel[1].type = "TagRead"
    /\ channel[2].type = "ButtonPressed"

\* C24 witness: in single-user mode, after a failed sign_off, a button
\* press is in the channel.
C24_WitnessSingle ==
    /\ SignedOff
    /\ SingleUserMode
    /\ api_log[1].res = "Err"
    /\ channel # <<>>
    /\ Head(channel).type = "ButtonPressed"

----------------------------------------------------------------------------
\* C25: the empty tag.

\* This step is the tag listener's: it handles a raw event of the reader
\* and the main thread stays where it is.
ReaderStep == TagListenerStep /\ UNCHANGED <<pc, in_flight>>

\* Enter released with nothing read sends the TagRead of the empty string.
EmptyEnterEmits ==
    (ReaderStep /\ Released({KEY_ENTER}) /\ chars_read = "")
        => (channel' = Append(channel, TagRead("")) /\ chars_read' = "")

\* The most recent step handled the TagRead of the empty string.
EmptyTagHandled == Handled("TagRead") /\ last_event.tag = ""

\* The empty tag is handled like any other: admin mode when it is in the
\* admin tag set, and otherwise one get_tag_details call for it, whose
\* answer decides CurrentUser and the sound.
EmptyTagLikeAnyOther ==
    (MultiUserMode /\ EmptyTagHandled)
        => /\ pc = "receiving"
           /\ ("" \in admin_tags)
                 => /\ api_log = <<>>
                    /\ current_user = CurrentUserAdmin
                    /\ Len(sound_log) = 1
                    /\ sound_log[1].name = "admin_mode_entered"
           /\ ("" \notin admin_tags)
                 => /\ Len(api_log) = 1
                    /\ api_log[1].op = "get_tag_details"
                    /\ api_log[1].arg = ""
                    /\ (api_log[1].res = "Some")
                          => (current_user = CurrentUserUser(api_log[1].user))
                    /\ (api_log[1].res = "None")
                          => /\ current_user = CurrentUserNone
                             /\ Len(sound_log) = 1
                             /\ sound_log[1].name = "user_tag_unknown"
                    /\ (api_log[1].res = "Err")
                          => /\ current_user = CurrentUserNone
                             /\ Len(sound_log) = 1
                             /\ sound_log[1].name = "communication_failed"

C25_WitnessQueued ==
    /\ raw_event = RawEvent("reader", "KEY", KEY_ENTER, 0)
    /\ channel = <<TagRead("4"), TagRead("")>>

\* C25 witness: the empty tag is an admin tag.
C25_WitnessAdmin ==
    /\ EmptyTagHandled
    /\ current_user = CurrentUserAdmin

====
